---- MODULE Spec2Model ----
(***************************************************************************)
(* Model of src/posix/platform/secure_settings.cpp: a record store kept in *)
(* one file, read through the process-wide descriptor sSecureSettingsFd    *)
(* and rewritten through the fixed swap path "/tmp/swap" followed by       *)
(* rename().                                                               *)
(*                                                                         *)
(* The filesystem is modelled at the level the code uses it: inodes hold   *)
(* byte sequences, a path names an inode, a descriptor references an inode *)
(* and has a file offset.  rename() and unlink() change what a path names, *)
(* never what an open descriptor references.                               *)
(*                                                                         *)
(* Every scan begins with lseek(fd, 0, SEEK_SET), so the offset an         *)
(* operation leaves behind is never read; the model keeps the offset only  *)
(* while an operation runs and shows it as 0 between operations.           *)
(***************************************************************************)
EXTENDS Integers, Sequences, FiniteSets, TLC

VARIABLES
    inodes,             \* inode -> byte content
    dataIno,            \* process -> inode named by its store path, 0 = no such file
    swapIno,            \* inode named by "/tmp/swap", 0 = no such file
    sSecureSettingsFd,  \* process -> inode referenced by the store descriptor, -1 = none
    fdPos,              \* process -> file offset of the store descriptor during a scan
    frame,              \* process -> locals and position of the running operation
    leaked,             \* process -> number of swap descriptors never closed
    leakedInos,         \* process -> inodes pinned by those descriptors
    obs                 \* process -> observations of completed operations

vars == <<inodes, dataIno, swapIno, sSecureSettingsFd, fdPos, frame, leaked, leakedInos, obs>>

----------------------------------------------------------------------------
(* Bounds of the model *)

MaxRecs == 2        \* records in a store that exists before init
MaxIno  == 4        \* inode slots
MaxLeak == 1        \* swap descriptors a process may leak before calls stop

Procs == {1, 2}
Ino   == 1..MaxIno

\* keys and values passed to the interface; the keys differ in the high byte only
Keys   == {1, 257}
Values == {<<>>, <<66>>, <<65, 66>>}

\* records of a store that exists before init
StoredRecords ==
    {[key |-> 1, value |-> <<66>>], [key |-> 1, value |-> <<65, 66>>],
     [key |-> 257, value |-> <<>>]}

MaxIdx == MaxRecs       \* largest occurrence index passed to get / delete
MaxCap == 3             \* largest capacity passed to get: one more than the longest value

kBufferSize == 512

OT_ERROR_NONE      == "OT_ERROR_NONE"
OT_ERROR_NOT_FOUND == "OT_ERROR_NOT_FOUND"

Absent == <<-1>>    \* content of a path that names no file

Min(a, b) == IF a <= b THEN a ELSE b
Max(a, b) == IF a >= b THEN a ELSE b

----------------------------------------------------------------------------
(* Record layout: uint16_t key, uint16_t length, length bytes (host order, *)
(* little-endian host).                                                    *)

\* variant: the high byte is lost
U16BytesLow(x) == <<x % 256, 0>>

U16Bytes(x) == <<x % 256, (x \div 256) % 256>>

U16Value(b) == b[1] + 256 * b[2]

EncodeRecord(k, v) == U16Bytes(k) \o U16Bytes(Len(v)) \o v

RECURSIVE EncodeStore(_)
EncodeStore(recs) ==
    IF recs = <<>> THEN <<>>
    ELSE EncodeRecord(Head(recs).key, Head(recs).value) \o EncodeStore(Tail(recs))

RECURSIVE ParseStore(_)
ParseStore(bytes) ==
    IF Len(bytes) < 4 THEN <<>>
    ELSE LET k == U16Value(SubSeq(bytes, 1, 2))
             n == U16Value(SubSeq(bytes, 3, 4))
         IN IF 4 + n > Len(bytes) THEN <<>>
            ELSE <<[key |-> k, value |-> SubSeq(bytes, 5, 4 + n)]>>
                 \o ParseStore(SubSeq(bytes, 5 + n, Len(bytes)))

WellFormed(bytes) == EncodeStore(ParseStore(bytes)) = bytes

----------------------------------------------------------------------------
(* POSIX calls on inodes *)

\* read(fd, buf, n) at offset pos: the bytes obtained (fewer than n at end of file)
ReadAt(content, pos, n) ==
    IF pos >= Len(content) \/ n = 0 THEN <<>>
    ELSE SubSeq(content, pos + 1, Min(pos + n, Len(content)))

\* write(fd, buf, n) at offset pos
WriteAt(content, pos, bytes) ==
    LET pad  == [i \in 1..(pos - Len(content)) |-> 0]
        pre  == IF pos <= Len(content) THEN SubSeq(content, 1, pos) ELSE content \o pad
        post == IF pos + Len(bytes) < Len(content)
                THEN SubSeq(content, pos + Len(bytes) + 1, Len(content)) ELSE <<>>
    IN pre \o bytes \o post

\* lseek(fd, 0, SEEK_END)
SeekEnd(fd) == IF fd = -1 THEN -1 ELSE Len(inodes[fd])

\* lseek(fd, 0, SEEK_SET)
SeekSet(fd) == IF fd = -1 THEN -1 ELSE 0

\* lseek(fd, n, SEEK_CUR) from offset pos
SeekCur(fd, pos, n) == IF fd = -1 THEN -1 ELSE pos + n

FdRead(fd, pos, n) == IF fd = -1 THEN <<>> ELSE ReadAt(inodes[fd], pos, n)

\* inodes named by a path or referenced by a descriptor
Refs ==
    {dataIno[q] : q \in Procs} \cup {swapIno}
    \cup {sSecureSettingsFd[q] : q \in Procs}
    \cup {frame[q].swapFd : q \in Procs}
    \cup UNION {leakedInos[q] : q \in Procs}

FreeInos == Ino \ Refs

FreshIno == CHOOSE i \in FreeInos : \A j \in FreeInos : i <= j

PathContent(p) == IF dataIno[p] = 0 THEN Absent ELSE inodes[dataIno[p]]

HandleContent(p) == IF sSecureSettingsFd[p] = -1 THEN Absent ELSE inodes[sSecureSettingsFd[p]]

SwapContent == IF swapIno = 0 THEN Absent ELSE inodes[swapIno]

----------------------------------------------------------------------------
(* Inputs *)

RecordSeqs == UNION {[1..n -> StoredRecords] : n \in 0..MaxRecs}

\* the well-formed files that may exist at the store path before init
InitStores == {EncodeStore(rs) : rs \in RecordSeqs}

\* bytes an uninitialised part of a stack buffer may hold
GarbageBytes == {0, 65, 66}

Garbage(n) == [1..n -> GarbageBytes]

----------------------------------------------------------------------------
(* Locals of the running operation.  op is the interface operation that    *)
(* was called; idx0 keeps the aIndex argument, which the code decrements,   *)
(* capacity the value of *aValueLength at the call, which the code         *)
(* overwrites, outValue the bytes copied to aValue, and renamed whether    *)
(* the operation has executed its rename, shortIo whether a read of get or  *)
(* of a rewrite returned fewer bytes than were asked for.                  *)

IdleFrame ==
    [pc |-> "idle", op |-> "none",
     aKey |-> 0, aIndex |-> 0, idx0 |-> 0,
     aValue |-> <<>>, hasValue |-> FALSE, hasLength |-> FALSE, aValueLength |-> 0,
     capacity |-> 0, outValue |-> <<>>,
     key |-> 0, length |-> 0, offset |-> 0, size |-> 0,
     error |-> "none", swapFd |-> -1, swapPos |-> 0, buffer |-> <<>>, count |-> 0,
     renamed |-> FALSE, shortIo |-> FALSE]

NoOp == [op |-> "none", key |-> 0, index |-> 0, value |-> <<>>]

\* observations: the store path's content when the running operation was
\* called (atCall) and when its rewrite opened the swap file (rwBefore), the
\* complete content that rewrite is to produce (rwTarget), the store path's
\* content before a wipe that was the last completed operation (wiped), and
\* the record of completed operations described at Completed
IdleObs ==
    [atCall |-> <<>>, rwBefore |-> <<>>, rwTarget |-> <<>>, wiped |-> <<>>,
     last |-> NoOp,
     rt |-> 0, rtKey |-> 0, rtValue |-> <<>>,
     scen |-> 0, scenKey |-> 0, scenV1 |-> <<>>, scenV2 |-> <<>>]

\* the interface operations other than init take the currently open store
Callable(p) == frame[p].pc = "idle" /\ sSecureSettingsFd[p] # -1 /\ leaked[p] < MaxLeak

\* contents of the inodes nothing names or references are dropped
Reap(content, refs) == [i \in Ino |-> IF i \in refs THEN content[i] ELSE <<>>]

RECURSIVE Ascending(_)
Ascending(S) ==
    IF S = {} THEN <<>>
    ELSE LET m == CHOOSE x \in S : \A y \in S : x <= y
         IN <<m>> \o Ascending(S \ {m})

\* the inodes of L in the order of their first occurrence
RECURSIVE FirstOccurrences(_, _)
FirstOccurrences(L, seen) ==
    IF L = <<>> THEN <<>>
    ELSE IF Head(L) \in seen \/ Head(L) \notin Ino
         THEN FirstOccurrences(Tail(L), seen)
         ELSE <<Head(L)>> \o FirstOccurrences(Tail(L), seen \cup {Head(L)})

\* Inode numbers are identities the program never sees.  When an operation
\* completes the live inodes are renumbered in the order in which the
\* descriptors and paths below reference them, so that states differing only
\* in the numbers coincide.  d, s, f, fr, lk are the next values of dataIno,
\* swapIno, sSecureSettingsFd, frame and leakedInos before renumbering.
Commit(d, s, f, fr, lk, content) ==
    LET ord == FirstOccurrences(
                   <<f[1], d[1], f[2], d[2], s, fr[1].swapFd, fr[2].swapFd>>
                   \o Ascending(lk[1] \cup lk[2]), {})
        ren(x) == IF x \in Ino THEN CHOOSE j \in 1..Len(ord) : ord[j] = x ELSE x
    IN /\ dataIno' = [p \in Procs |-> ren(d[p])]
       /\ swapIno' = ren(s)
       /\ sSecureSettingsFd' = [p \in Procs |-> ren(f[p])]
       /\ frame' = [p \in Procs |-> [fr[p] EXCEPT !.swapFd = ren(@)]]
       /\ leakedInos' = [p \in Procs |-> {ren(x) : x \in lk[p]}]
       /\ inodes' = [j \in Ino |-> IF j <= Len(ord) THEN content[ord[j]] ELSE <<>>]

----------------------------------------------------------------------------
(* otPosixSecureSettingsDelete *)

\* variant: every open of the swap path creates a file of its own
SwapOpenPrivate == FreshIno

\* open("/tmp/swap", O_RDWR | O_CREAT | O_TRUNC): the inode the descriptor references
SwapOpenIno == IF swapIno = 0 THEN FreshIno ELSE swapIno

\* variant: every record of the key is left out, whatever the index
DeleteOmitsAnyIndex(aKey, key, aIndex) == aKey = key

\* the record under the cursor is left out of the rewrite
DeleteOmits(aKey, key, aIndex) == aKey = key /\ (aIndex = 0 \/ aIndex = -1)

\* the records delete(k, i) keeps of recs: those the loop does not omit
RECURSIVE FilterRecs(_, _, _)
FilterRecs(recs, k, i) ==
    IF recs = <<>> THEN <<>>
    ELSE IF Head(recs).key = k
         THEN IF i = 0 \/ i = -1 THEN FilterRecs(Tail(recs), k, i)
              ELSE <<Head(recs)>> \o FilterRecs(Tail(recs), k, i - 1)
         ELSE <<Head(recs)>> \o FilterRecs(Tail(recs), k, i)

\* the complete swap file that delete(k, i) builds from a store file
RewriteOf(content, k, i) ==
    IF content = Absent THEN <<>> ELSE EncodeStore(FilterRecs(ParseStore(content), k, i))

\* variant: the rewrite writes through the store descriptor
DeleteWriteFdStore(p) == sSecureSettingsFd[p]

\* the descriptor the rewrite writes to, lines 222, 225, 235
DeleteWriteFd(p) == frame[p].swapFd

\* entry of Delete, lines 181-186: open and truncate the swap file, size the store
DeleteEnter(p, op, k, i, v) ==
    /\ Callable(p)
    /\ swapIno # 0 \/ FreeInos # {}
    /\ LET fd == sSecureSettingsFd[p]
           sw == SwapOpenIno
       IN /\ inodes' = [inodes EXCEPT ![sw] = <<>>]
          /\ swapIno' = sw
          /\ fdPos' = [fdPos EXCEPT ![p] = IF fd = -1 THEN @ ELSE 0]
          /\ frame' = [frame EXCEPT ![p] =
                 [IdleFrame EXCEPT !.pc = "d_loop", !.op = op,
                                   !.aKey = k, !.aIndex = i, !.idx0 = i,
                                   !.aValue = v, !.aValueLength = Len(v),
                                   !.error = OT_ERROR_NOT_FOUND,
                                   !.swapFd = sw, !.swapPos = 0,
                                   !.size = SeekEnd(fd), !.offset = SeekSet(fd)]]
          /\ obs' = [obs EXCEPT ![p].atCall = PathContent(p),
                                ![p].rwBefore = PathContent(p),
                                ![p].rwTarget = RewriteOf(HandleContent(p), k, i)]
    /\ UNCHANGED <<dataIno, sSecureSettingsFd, leaked, leakedInos>>

Delete(p) ==
    \E k \in Keys, i \in -1..MaxIdx : DeleteEnter(p, "delete", k, i, <<>>)

\* one pass of the loop head, lines 188-220
DeleteStep(p) ==
    /\ frame[p].pc = "d_loop"
    /\ LET f  == frame[p]
           fd == sSecureSettingsFd[p]
           kb == FdRead(fd, fdPos[p], 2)
           lb == FdRead(fd, fdPos[p] + 2, 2)
       IN IF ~(f.offset < f.size)
          THEN /\ frame' = [frame EXCEPT ![p].pc = "d_sync"]
               /\ UNCHANGED fdPos
          ELSE IF Len(kb) # 2
          THEN /\ frame' = [frame EXCEPT ![p].pc = "d_exit", ![p].shortIo = TRUE]
               /\ fdPos' = [fdPos EXCEPT ![p] = @ + Len(kb)]
          ELSE IF Len(lb) # 2
          THEN /\ frame' = [frame EXCEPT ![p].pc = "d_exit", ![p].key = U16Value(kb),
                                         ![p].shortIo = TRUE]
               /\ fdPos' = [fdPos EXCEPT ![p] = @ + 2 + Len(lb)]
          ELSE LET key    == U16Value(kb)
                   length == U16Value(lb)
                   offset == f.offset + 4 + length
               IN IF DeleteOmits(f.aKey, key, f.aIndex)
                  THEN /\ fdPos' = [fdPos EXCEPT ![p] = SeekCur(fd, @ + 4, length)]
                       /\ frame' = [frame EXCEPT ![p] =
                              [f EXCEPT !.key = 0, !.length = 0, !.offset = offset,
                                        !.error = IF offset = SeekCur(fd, fdPos[p] + 4, length)
                                                  THEN OT_ERROR_NONE ELSE @,
                                        !.pc = IF offset = SeekCur(fd, fdPos[p] + 4, length)
                                               THEN "d_loop" ELSE "d_exit"]]
                  ELSE /\ fdPos' = [fdPos EXCEPT ![p] = @ + 4]
                       /\ frame' = [frame EXCEPT ![p] =
                              [f EXCEPT !.key = key, !.length = length, !.offset = offset,
                                        !.aIndex = IF f.aKey = key THEN @ - 1 ELSE @,
                                        !.pc = "d_wkey"]]
    /\ UNCHANGED <<inodes, dataIno, swapIno, sSecureSettingsFd, leaked, leakedInos, obs>>

\* write(swapFd, &key, sizeof(key)), lines 222-223
DeleteWriteKey(p) ==
    /\ frame[p].pc = "d_wkey"
    /\ LET f == frame[p]
       IN /\ inodes' = [inodes EXCEPT ![DeleteWriteFd(p)] = WriteAt(@, f.swapPos, U16Bytes(f.key))]
          /\ frame' = [frame EXCEPT ![p].swapPos = @ + 2, ![p].pc = "d_wlen"]
    /\ UNCHANGED <<dataIno, swapIno, sSecureSettingsFd, fdPos, leaked, leakedInos, obs>>

\* write(swapFd, &length, sizeof(length)), lines 225-229
DeleteWriteLength(p) ==
    /\ frame[p].pc = "d_wlen"
    /\ LET f == frame[p]
       IN /\ inodes' = [inodes EXCEPT ![DeleteWriteFd(p)] = WriteAt(@, f.swapPos, U16Bytes(f.length))]
          /\ frame' = [frame EXCEPT ![p].swapPos = @ + 2,
                                    ![p].key = 0,
                                    ![p].pc = IF f.length > 0 THEN "d_read" ELSE "d_loop"]
    /\ UNCHANGED <<dataIno, swapIno, sSecureSettingsFd, fdPos, leaked, leakedInos, obs>>

\* read one chunk of the payload, lines 231-233
DeleteCopyRead(p) ==
    /\ frame[p].pc = "d_read"
    /\ LET f     == frame[p]
           count == IF f.length >= kBufferSize THEN kBufferSize ELSE f.length
           got   == FdRead(sSecureSettingsFd[p], fdPos[p], count)
       IN /\ fdPos' = [fdPos EXCEPT ![p] = @ + Len(got)]
          /\ IF Len(got) > 0
             THEN \E rest \in Garbage(count - Len(got)) :
                      frame' = [frame EXCEPT ![p].count = count, ![p].buffer = got \o rest,
                                             ![p].shortIo = @ \/ Len(got) < count,
                                             ![p].pc = "d_write"]
             ELSE frame' = [frame EXCEPT ![p].count = count, ![p].shortIo = TRUE,
                                         ![p].pc = "d_exit"]
    /\ UNCHANGED <<inodes, dataIno, swapIno, sSecureSettingsFd, leaked, leakedInos, obs>>

\* variant: the remaining length is not reduced by the chunk written
DeleteCopyWriteNoProgress(p) ==
    /\ frame[p].pc = "d_write"
    /\ LET f == frame[p]
       IN /\ inodes' = [inodes EXCEPT ![DeleteWriteFd(p)] = WriteAt(@, f.swapPos, f.buffer)]
          /\ frame' = [frame EXCEPT ![p].swapPos = @ + f.count,
                                    ![p].buffer = <<>>, ![p].count = 0,
                                    ![p].pc = "d_read"]
    /\ UNCHANGED <<dataIno, swapIno, sSecureSettingsFd, fdPos, leaked, leakedInos, obs>>

\* write the chunk to the swap file, lines 235-239
DeleteCopyWrite(p) ==
    /\ frame[p].pc = "d_write"
    /\ LET f == frame[p]
       IN /\ inodes' = [inodes EXCEPT ![DeleteWriteFd(p)] = WriteAt(@, f.swapPos, f.buffer)]
          /\ frame' = [frame EXCEPT ![p].swapPos = @ + f.count,
                                    ![p].length = @ - f.count,
                                    ![p].buffer = <<>>, ![p].count = 0,
                                    ![p].pc = IF f.length - f.count > 0 THEN "d_read" ELSE "d_loop"]
    /\ UNCHANGED <<dataIno, swapIno, sSecureSettingsFd, fdPos, leaked, leakedInos, obs>>

\* fsync(swapFd); close(swapFd), lines 242-243
DeleteSyncClose(p) ==
    /\ frame[p].pc = "d_sync"
    /\ frame' = [frame EXCEPT ![p].swapFd = -1, ![p].swapPos = 0, ![p].pc = "d_rename"]
    /\ UNCHANGED <<dataIno, swapIno, sSecureSettingsFd, fdPos, leaked, leakedInos, obs>>
    /\ inodes' = Reap(inodes, Refs')

\* variant: the rename is left out
RenameMissing(p) == UNCHANGED <<dataIno, swapIno>>

\* rename("/tmp/swap", fileName): the store path now names the swap inode
RenameSwap(p) ==
    /\ dataIno' = IF swapIno = 0 THEN dataIno ELSE [dataIno EXCEPT ![p] = swapIno]
    /\ swapIno' = 0

\* rename of the rewrite over the store path, lines 246-248
DeleteRename(p) ==
    /\ frame[p].pc = "d_rename"
    /\ RenameSwap(p)
    /\ frame' = [frame EXCEPT ![p].renamed = TRUE, ![p].pc = "d_exit"]
    /\ UNCHANGED <<sSecureSettingsFd, fdPos, leaked, leakedInos, obs>>
    /\ inodes' = Reap(inodes, Refs')

\* what is remembered of a completed operation: the last completed operation
\* other than get, whether set/deinit/init followed each other (rt = 1, 2, 3)
\* or set/deinit/deinit.../init (rt = 1, 2, 4, 5), and how far the
\* add/add/delete scenario on an initially empty store has got (scen)
Completed(o, op, k, i, v, empty) ==
    LET rt == CASE op \in {"set", "add"} -> 1
                [] op = "deinit" -> IF o.rt = 1 THEN 2 ELSE IF o.rt \in {2, 4} THEN 4 ELSE 0
                [] op = "init"   -> IF o.rt = 2 THEN 3 ELSE IF o.rt = 4 THEN 5 ELSE 0
                [] OTHER         -> 0
        sc == CASE op = "init" -> IF empty THEN 1 ELSE 0
                [] op = "add"  -> IF o.scen = 1 THEN 2
                                  ELSE IF o.scen = 2 /\ k = o.scenKey THEN 3 ELSE 0
                [] op = "delete" -> IF o.scen = 3 /\ k = o.scenKey /\ i = 1 THEN 4 ELSE 0
                [] OTHER -> 0
    IN [atCall |-> <<>>, rwBefore |-> <<>>, rwTarget |-> <<>>, wiped |-> <<>>,
        last |-> [op |-> op, key |-> k, index |-> i, value |-> v],
        rt |-> rt,
        rtKey   |-> IF rt = 1 THEN k ELSE IF rt = 0 THEN 0 ELSE o.rtKey,
        rtValue |-> IF rt = 1 THEN v ELSE IF rt = 0 THEN <<>> ELSE o.rtValue,
        scen |-> sc,
        scenKey |-> IF sc = 2 THEN k ELSE IF sc \in {3, 4} THEN o.scenKey ELSE 0,
        scenV1  |-> IF sc = 2 THEN v ELSE IF sc \in {3, 4} THEN o.scenV1 ELSE <<>>,
        scenV2  |-> IF sc = 3 THEN v ELSE IF sc = 4 THEN o.scenV2 ELSE <<>>]

\* exit: return error, lines 250-251.  A swap descriptor still open here is
\* never closed.  Called from Set, control continues at line 153.
DeleteReturn(p) ==
    /\ frame[p].pc = "d_exit"
    /\ LET f  == frame[p]
           lk == [leakedInos EXCEPT ![p] = IF f.swapFd = -1 THEN @ ELSE @ \cup {f.swapFd}]
           fr == IF f.op = "delete"
                 THEN [frame EXCEPT ![p] = IdleFrame]
                 ELSE [frame EXCEPT ![p] =
                          [IdleFrame EXCEPT !.pc = "s_open", !.op = f.op, !.aKey = f.aKey,
                                            !.aValue = f.aValue, !.aValueLength = f.aValueLength,
                                            !.shortIo = f.shortIo]]
       IN /\ leaked' = [leaked EXCEPT ![p] = IF f.swapFd = -1 THEN @ ELSE @ + 1]
          /\ obs' = IF f.op = "delete"
                    THEN [obs EXCEPT ![p] = Completed(@, "delete", f.aKey, f.idx0, <<>>, FALSE)]
                    ELSE obs
          /\ fdPos' = [fdPos EXCEPT ![p] = 0]
          /\ Commit(dataIno, swapIno, sSecureSettingsFd, fr, lk, inodes)

----------------------------------------------------------------------------
(* otPosixSecureSettingsSet, otPosixSecureSettingsAdd *)

\* lines 138-151: Set begins with Delete(aKey, -1)
Set(p) ==
    \E k \in Keys, v \in Values : DeleteEnter(p, "set", k, -1, v)

\* lines 172-175: Add is Set
Add(p) ==
    \E k \in Keys, v \in Values : DeleteEnter(p, "add", k, -1, v)

\* open("/tmp/swap", O_RDWR | O_CREAT | O_TRUNC), lines 153-154
SetOpenSwap(p) ==
    /\ frame[p].pc = "s_open"
    /\ swapIno # 0 \/ FreeInos # {}
    /\ LET sw == SwapOpenIno
       IN /\ inodes' = [inodes EXCEPT ![sw] = <<>>]
          /\ swapIno' = sw
          /\ frame' = [frame EXCEPT ![p].swapFd = sw, ![p].swapPos = 0, ![p].pc = "s_wkey"]
          /\ obs' = [obs EXCEPT ![p].rwBefore = PathContent(p),
                                ![p].rwTarget = EncodeRecord(frame[p].aKey, frame[p].aValue)]
    /\ UNCHANGED <<dataIno, sSecureSettingsFd, fdPos, leaked, leakedInos>>

\* write(swapFd, &aKey, sizeof(aKey)), line 156
SetWriteKey(p) ==
    /\ frame[p].pc = "s_wkey"
    /\ LET f == frame[p]
       IN /\ inodes' = [inodes EXCEPT ![f.swapFd] = WriteAt(@, f.swapPos, U16Bytes(f.aKey))]
          /\ frame' = [frame EXCEPT ![p].swapPos = @ + 2, ![p].pc = "s_wlen"]
    /\ UNCHANGED <<dataIno, swapIno, sSecureSettingsFd, fdPos, leaked, leakedInos, obs>>

\* write(swapFd, &aValueLength, sizeof(aValueLength)), line 157
SetWriteLength(p) ==
    /\ frame[p].pc = "s_wlen"
    /\ LET f == frame[p]
       IN /\ inodes' = [inodes EXCEPT ![f.swapFd] = WriteAt(@, f.swapPos, U16Bytes(f.aValueLength))]
          /\ frame' = [frame EXCEPT ![p].swapPos = @ + 2, ![p].pc = "s_wval"]
    /\ UNCHANGED <<dataIno, swapIno, sSecureSettingsFd, fdPos, leaked, leakedInos, obs>>

\* write(swapFd, aValue, aValueLength), line 158
SetWriteValue(p) ==
    /\ frame[p].pc = "s_wval"
    /\ LET f == frame[p]
       IN /\ inodes' = [inodes EXCEPT ![f.swapFd] =
                 WriteAt(@, f.swapPos, SubSeq(f.aValue, 1, f.aValueLength))]
          /\ frame' = [frame EXCEPT ![p].swapPos = @ + f.aValueLength, ![p].pc = "s_sync"]
    /\ UNCHANGED <<dataIno, swapIno, sSecureSettingsFd, fdPos, leaked, leakedInos, obs>>

\* fsync(swapFd); close(swapFd), lines 161-162
SetSyncClose(p) ==
    /\ frame[p].pc = "s_sync"
    /\ frame' = [frame EXCEPT ![p].swapFd = -1, ![p].swapPos = 0, ![p].pc = "s_rename"]
    /\ UNCHANGED <<dataIno, swapIno, sSecureSettingsFd, fdPos, leaked, leakedInos, obs>>
    /\ inodes' = Reap(inodes, Refs')

\* rename("/tmp/swap", fileName), lines 165-167
SetRename(p) ==
    /\ frame[p].pc = "s_rename"
    /\ RenameSwap(p)
    /\ frame' = [frame EXCEPT ![p].renamed = TRUE, ![p].error = OT_ERROR_NONE, ![p].pc = "s_exit"]
    /\ UNCHANGED <<sSecureSettingsFd, fdPos, leaked, leakedInos, obs>>
    /\ inodes' = Reap(inodes, Refs')

\* return OT_ERROR_NONE, line 169
SetReturn(p) ==
    /\ frame[p].pc = "s_exit"
    /\ LET f == frame[p]
       IN /\ obs' = [obs EXCEPT ![p] = Completed(@, f.op, f.aKey, 0, f.aValue, FALSE)]
          /\ Commit(dataIno, swapIno, sSecureSettingsFd, [frame EXCEPT ![p] = IdleFrame],
                    leakedInos, inodes)
    /\ UNCHANGED <<fdPos, leaked>>

----------------------------------------------------------------------------
(* otPosixSecureSettingsGet *)

\* variant: the keys are compared as bytes
GetMatchesLow(key, aKey) == key % 256 = aKey % 256

\* line 104
GetMatches(key, aKey) == key = aKey

\* variant: the capacity is ignored
ReadLengthUnbounded(length, capacity) == length

\* line 114
ReadLength(length, capacity) == IF length <= capacity THEN length ELSE capacity

\* lines 88-90; hasValue: aValue is not null, hasLength: aValueLength is not
\* null and points at the capacity
Get(p) ==
    \E k \in Keys, i \in 0..MaxIdx, hasValue \in BOOLEAN, hasLength \in BOOLEAN,
       capacity \in 0..MaxCap :
        /\ Callable(p)
        /\ (hasLength /\ hasValue) \/ capacity = 0
        /\ LET fd == sSecureSettingsFd[p]
           IN /\ fdPos' = [fdPos EXCEPT ![p] = IF fd = -1 THEN @ ELSE 0]
              /\ frame' = [frame EXCEPT ![p] =
                     [IdleFrame EXCEPT !.pc = "g_loop", !.op = "get",
                                       !.aKey = k, !.aIndex = i, !.idx0 = i,
                                       !.hasValue = hasValue, !.hasLength = hasLength,
                                       !.aValueLength = capacity, !.capacity = capacity,
                                       !.error = OT_ERROR_NOT_FOUND,
                                       !.size = SeekEnd(fd), !.offset = SeekSet(fd)]]
        /\ UNCHANGED <<inodes, dataIno, swapIno, sSecureSettingsFd, leaked, leakedInos, obs>>

\* one pass of the loop, lines 92-132
GetStep(p) ==
    /\ frame[p].pc = "g_loop"
    /\ LET f  == frame[p]
           fd == sSecureSettingsFd[p]
           kb == FdRead(fd, fdPos[p], 2)
           lb == FdRead(fd, fdPos[p] + 2, 2)
       IN IF ~(f.offset < f.size)
          THEN /\ frame' = [frame EXCEPT ![p].pc = "g_exit"]
               /\ UNCHANGED fdPos
          ELSE IF Len(kb) # 2
          THEN /\ frame' = [frame EXCEPT ![p].pc = "g_exit", ![p].shortIo = TRUE]
               /\ fdPos' = [fdPos EXCEPT ![p] = @ + Len(kb)]
          ELSE IF Len(lb) # 2
          THEN /\ frame' = [frame EXCEPT ![p].pc = "g_exit", ![p].shortIo = TRUE]
               /\ fdPos' = [fdPos EXCEPT ![p] = @ + 2 + Len(lb)]
          ELSE LET key        == U16Value(kb)
                   length     == U16Value(lb)
                   offset     == f.offset + 4 + length
                   readLength == ReadLength(length, f.aValueLength)
                   got        == FdRead(fd, fdPos[p] + 4, readLength)
               IN IF GetMatches(key, f.aKey) /\ f.aIndex = 0
                  THEN IF f.hasLength /\ f.hasValue
                       THEN /\ fdPos' = [fdPos EXCEPT ![p] = @ + 4 + Len(got)]
                            /\ frame' = [frame EXCEPT ![p] =
                                   [f EXCEPT !.error = OT_ERROR_NONE, !.outValue = got,
                                             !.shortIo = Len(got) # readLength,
                                             !.aValueLength = IF Len(got) = readLength
                                                              THEN length ELSE @,
                                             !.pc = "g_exit"]]
                       ELSE /\ fdPos' = [fdPos EXCEPT ![p] = @ + 4]
                            /\ frame' = [frame EXCEPT ![p] =
                                   [f EXCEPT !.error = OT_ERROR_NONE,
                                             !.aValueLength = IF f.hasLength THEN length ELSE @,
                                             !.pc = "g_exit"]]
                  ELSE /\ fdPos' = [fdPos EXCEPT ![p] = SeekCur(fd, @ + 4, length)]
                       /\ frame' = [frame EXCEPT ![p] =
                              [f EXCEPT !.aIndex = IF GetMatches(key, f.aKey) THEN @ - 1 ELSE @,
                                        !.offset = offset,
                                        !.pc = IF offset = SeekCur(fd, fdPos[p] + 4, length)
                                               THEN "g_loop" ELSE "g_exit"]]
    /\ UNCHANGED <<inodes, dataIno, swapIno, sSecureSettingsFd, leaked, leakedInos, obs>>

\* exit: return error, lines 134-135
GetReturn(p) ==
    /\ frame[p].pc = "g_exit"
    /\ frame' = [frame EXCEPT ![p] = IdleFrame]
    /\ fdPos' = [fdPos EXCEPT ![p] = 0]
    /\ UNCHANGED <<inodes, dataIno, swapIno, sSecureSettingsFd, leaked, leakedInos, obs>>

----------------------------------------------------------------------------
(* otPosixSecureSettingsInit, otPosixSecureSettingsDeinit, otPosixSecureSettingsWipe *)

\* open(fileName, O_RDWR | O_CREAT): the inode the descriptor references
DataOpenIno(p) == IF dataIno[p] = 0 THEN FreshIno ELSE dataIno[p]

\* lines 39-49: open the store, creating it when absent, and size it
InitOpen(p) ==
    /\ frame[p].pc = "idle"
    /\ sSecureSettingsFd[p] = -1
    /\ dataIno[p] # 0 \/ FreeInos # {}
    /\ LET d == DataOpenIno(p)
       IN /\ dataIno' = [dataIno EXCEPT ![p] = d]
          /\ sSecureSettingsFd' = [sSecureSettingsFd EXCEPT ![p] = d]
          /\ fdPos' = [fdPos EXCEPT ![p] = 0]
          /\ frame' = [frame EXCEPT ![p] =
                 [IdleFrame EXCEPT !.pc = "i_loop", !.op = "init",
                                   !.size = Len(inodes[d]), !.offset = 0]]
    /\ UNCHANGED <<inodes, swapIno, leaked, leakedInos, obs>>

\* one pass of the validating scan, lines 49-63
InitStep(p) ==
    /\ frame[p].pc = "i_loop"
    /\ LET f  == frame[p]
           fd == sSecureSettingsFd[p]
           kb == FdRead(fd, fdPos[p], 2)
           lb == FdRead(fd, fdPos[p] + 2, 2)
       IN IF ~(f.offset < f.size)
          THEN /\ frame' = [frame EXCEPT ![p].pc = "i_exit"]
               /\ UNCHANGED fdPos
          ELSE IF Len(kb) # 2
          THEN /\ frame' = [frame EXCEPT ![p].pc = "i_exit"]
               /\ fdPos' = [fdPos EXCEPT ![p] = @ + Len(kb)]
          ELSE IF Len(lb) # 2
          THEN /\ frame' = [frame EXCEPT ![p].pc = "i_exit"]
               /\ fdPos' = [fdPos EXCEPT ![p] = @ + 2 + Len(lb)]
          ELSE LET length == U16Value(lb)
                   offset == f.offset + 4 + length
               IN /\ fdPos' = [fdPos EXCEPT ![p] = SeekCur(fd, @ + 4, length)]
                  /\ frame' = [frame EXCEPT ![p].offset = offset,
                                            ![p].pc = IF offset = SeekCur(fd, fdPos[p] + 4, length)
                                                      THEN "i_loop" ELSE "i_exit"]
    /\ UNCHANGED <<inodes, dataIno, swapIno, sSecureSettingsFd, leaked, leakedInos, obs>>

\* exit: return, lines 65-66
InitReturn(p) ==
    /\ frame[p].pc = "i_exit"
    /\ frame' = [frame EXCEPT ![p] = IdleFrame]
    /\ obs' = [obs EXCEPT ![p] = Completed(@, "init", 0, 0, <<>>, HandleContent(p) = <<>>)]
    /\ fdPos' = [fdPos EXCEPT ![p] = 0]
    /\ UNCHANGED <<inodes, dataIno, swapIno, sSecureSettingsFd, leaked, leakedInos>>

\* variant: the descriptor is closed but sSecureSettingsFd keeps its value
DeinitKeepsHandle(p) ==
    /\ frame[p].pc = "idle"
    /\ fdPos' = [fdPos EXCEPT ![p] = 0]
    /\ obs' = [obs EXCEPT ![p] = Completed(@, "deinit", 0, 0, <<>>, FALSE)]
    /\ UNCHANGED leaked
    /\ Commit(dataIno, swapIno, sSecureSettingsFd, frame, leakedInos, inodes)

\* lines 73-77
Deinit(p) ==
    /\ frame[p].pc = "idle"
    /\ fdPos' = [fdPos EXCEPT ![p] = 0]
    /\ obs' = [obs EXCEPT ![p] = Completed(@, "deinit", 0, 0, <<>>, FALSE)]
    /\ UNCHANGED leaked
    /\ Commit(dataIno, swapIno, [sSecureSettingsFd EXCEPT ![p] = -1], frame, leakedInos, inodes)

\* variant: the file is emptied before it is unlinked
WipeTruncate(p) ==
    /\ Callable(p)
    /\ obs' = [obs EXCEPT ![p] =
           [Completed(@, "wipe", 0, 0, <<>>, FALSE) EXCEPT !.wiped = PathContent(p)]]
    /\ UNCHANGED <<fdPos, leaked>>
    /\ Commit([dataIno EXCEPT ![p] = 0], swapIno, sSecureSettingsFd, frame, leakedInos,
              IF dataIno[p] = 0 THEN inodes ELSE [inodes EXCEPT ![dataIno[p]] = <<>>])

\* unlink(fileName), lines 258-260
Wipe(p) ==
    /\ Callable(p)
    /\ obs' = [obs EXCEPT ![p] =
           [Completed(@, "wipe", 0, 0, <<>>, FALSE) EXCEPT !.wiped = PathContent(p)]]
    /\ UNCHANGED <<fdPos, leaked>>
    /\ Commit([dataIno EXCEPT ![p] = 0], swapIno, sSecureSettingsFd, frame, leakedInos, inodes)

\* the process dies between two filesystem calls: its descriptors are closed
\* and its memory is lost, the files stay as they are
Crash(p) ==
    /\ frame[p].pc # "idle" \/ sSecureSettingsFd[p] # -1
    /\ fdPos' = [fdPos EXCEPT ![p] = 0]
    /\ leaked' = [leaked EXCEPT ![p] = 0]
    /\ obs' = [obs EXCEPT ![p] = Completed(@, "crash", 0, 0, <<>>, FALSE)]
    /\ Commit(dataIno, swapIno, [sSecureSettingsFd EXCEPT ![p] = -1],
              [frame EXCEPT ![p] = IdleFrame], [leakedInos EXCEPT ![p] = {}], inodes)

----------------------------------------------------------------------------
(* Specifications *)

\* Before init: process 1's store path names no file or a well-formed store
\* left by an earlier run; nothing is open.
Init ==
    /\ \E present \in BOOLEAN, store \in InitStores :
           /\ present \/ store = <<>>
           /\ dataIno = [p \in Procs |-> IF p = 1 /\ present THEN 1 ELSE 0]
           /\ inodes = [i \in Ino |-> IF i = 1 /\ present THEN store ELSE <<>>]
    /\ swapIno = 0
    /\ sSecureSettingsFd = [p \in Procs |-> -1]
    /\ fdPos = [p \in Procs |-> 0]
    /\ frame = [p \in Procs |-> IdleFrame]
    /\ leaked = [p \in Procs |-> 0]
    /\ leakedInos = [p \in Procs |-> {}]
    /\ obs = [p \in Procs |-> IdleObs]

\* one process, every filesystem call succeeds
Next ==
    \E p \in {1} :
        \/ InitOpen(p) \/ InitStep(p) \/ InitReturn(p)
        \/ Deinit(p)
        \/ Get(p) \/ GetStep(p) \/ GetReturn(p)
        \/ Set(p) \/ Add(p)
        \/ SetOpenSwap(p) \/ SetWriteKey(p) \/ SetWriteLength(p) \/ SetWriteValue(p)
        \/ SetSyncClose(p) \/ SetRename(p) \/ SetReturn(p)
        \/ Delete(p) \/ DeleteStep(p)
        \/ DeleteWriteKey(p) \/ DeleteWriteLength(p) \/ DeleteCopyRead(p) \/ DeleteCopyWrite(p)
        \/ DeleteSyncClose(p) \/ DeleteRename(p) \/ DeleteReturn(p)
        \/ Wipe(p)

Spec == Init /\ [][Next]_vars

\* the same process running init, deinit, set, add and delete, dying at any point
NextCrash ==
    \E p \in {1} :
        \/ InitOpen(p) \/ InitStep(p) \/ InitReturn(p)
        \/ Deinit(p)
        \/ Set(p) \/ Add(p)
        \/ SetOpenSwap(p) \/ SetWriteKey(p) \/ SetWriteLength(p) \/ SetWriteValue(p)
        \/ SetSyncClose(p) \/ SetRename(p) \/ SetReturn(p)
        \/ Delete(p) \/ DeleteStep(p)
        \/ DeleteWriteKey(p) \/ DeleteWriteLength(p) \/ DeleteCopyRead(p) \/ DeleteCopyWrite(p)
        \/ DeleteSyncClose(p) \/ DeleteRename(p) \/ DeleteReturn(p)
        \/ Crash(p)

SpecCrash == Init /\ [][NextCrash]_vars

\* files that may be at the store path when not every file is a well-formed
\* store: a partial header, a payload shorter than its length field, bytes
\* after the last record; and well-formed stores, one with a value longer
\* than the copy buffer
BigValue == [i \in 1..(kBufferSize + 1) |-> 66]

MalformedStores ==
    {<<7>>,
     <<1, 0, 1>>,
     <<1, 0, 1, 0>>,
     <<1, 0, 2, 0, 66>>,
     <<1, 0, 1, 0, 66, 1>>,
     <<1, 1, 0, 0, 1, 0, 2, 0, 65>>}

AnyStores ==
    MalformedStores
    \cup {EncodeStore(<<r>>) : r \in StoredRecords}
    \cup {EncodeRecord(1, BigValue)}

InitMalformed ==
    /\ \E store \in AnyStores :
           /\ dataIno = [p \in Procs |-> IF p = 1 THEN 1 ELSE 0]
           /\ inodes = [i \in Ino |-> IF i = 1 THEN store ELSE <<>>]
    /\ swapIno = 0
    /\ sSecureSettingsFd = [p \in Procs |-> -1]
    /\ fdPos = [p \in Procs |-> 0]
    /\ frame = [p \in Procs |-> IdleFrame]
    /\ leaked = [p \in Procs |-> 0]
    /\ leakedInos = [p \in Procs |-> {}]
    /\ obs = [p \in Procs |-> IdleObs]

\* one process running init, deinit, get, set and delete on such a file
NextMalformed ==
    \E p \in {1} :
        \/ InitOpen(p) \/ InitStep(p) \/ InitReturn(p)
        \/ Deinit(p)
        \/ Get(p) \/ GetStep(p) \/ GetReturn(p)
        \/ Set(p)
        \/ SetOpenSwap(p) \/ SetWriteKey(p) \/ SetWriteLength(p) \/ SetWriteValue(p)
        \/ SetSyncClose(p) \/ SetRename(p) \/ SetReturn(p)
        \/ Delete(p) \/ DeleteStep(p)
        \/ DeleteWriteKey(p) \/ DeleteWriteLength(p) \/ DeleteCopyRead(p) \/ DeleteCopyWrite(p)
        \/ DeleteSyncClose(p) \/ DeleteRename(p) \/ DeleteReturn(p)

SpecMalformed == InitMalformed /\ [][NextMalformed]_vars

\* two store instances in separate processes, each with its own store path
\* and its own sSecureSettingsFd, both using "/tmp/swap"; before init the
\* first has no store file, the second a store with one record
InitTwo ==
    /\ dataIno = [p \in Procs |-> IF p = 2 THEN 1 ELSE 0]
    /\ inodes = [i \in Ino |-> IF i = 1 THEN EncodeRecord(1, <<66>>) ELSE <<>>]
    /\ swapIno = 0
    /\ sSecureSettingsFd = [p \in Procs |-> -1]
    /\ fdPos = [p \in Procs |-> 0]
    /\ frame = [p \in Procs |-> IdleFrame]
    /\ leaked = [p \in Procs |-> 0]
    /\ leakedInos = [p \in Procs |-> {}]
    /\ obs = [p \in Procs |-> IdleObs]

\* each instance, once initialised, stores or deletes one setting of its own
OwnKey(p) == IF p = 1 THEN 1 ELSE 257

OwnValue(p) == IF p = 1 THEN <<66>> ELSE <<65, 66>>

SetOwn(p) ==
    /\ obs[p].last.op = "init"
    /\ DeleteEnter(p, "set", OwnKey(p), -1, OwnValue(p))

DeleteOwn(p) ==
    /\ obs[p].last.op = "init"
    /\ DeleteEnter(p, "delete", OwnKey(p), -1, <<>>)

\* the processes run init and one set or delete each, with no serialization:
\* their filesystem calls interleave in any order
NextTwo ==
    \E p \in Procs :
        \/ InitOpen(p) \/ InitStep(p) \/ InitReturn(p)
        \/ SetOwn(p)
        \/ SetOpenSwap(p) \/ SetWriteKey(p) \/ SetWriteLength(p) \/ SetWriteValue(p)
        \/ SetSyncClose(p) \/ SetRename(p) \/ SetReturn(p)
        \/ DeleteOwn(p) \/ DeleteStep(p)
        \/ DeleteWriteKey(p) \/ DeleteWriteLength(p) \/ DeleteCopyRead(p) \/ DeleteCopyWrite(p)
        \/ DeleteSyncClose(p) \/ DeleteRename(p) \/ DeleteReturn(p)

SpecTwo == InitTwo /\ [][NextTwo]_vars

TypeOK ==
    /\ \A i \in Ino : inodes[i] \in Seq(0..255)
    /\ \A p \in Procs : dataIno[p] \in Ino \cup {0}
    /\ swapIno \in Ino \cup {0}
    /\ \A p \in Procs : sSecureSettingsFd[p] \in Ino \cup {-1}

----------------------------------------------------------------------------
(* Vocabulary of the properties: record sequences as the interface          *)
(* describes them                                                          *)

Count(recs, k) == Cardinality({j \in 1..Len(recs) : recs[j].key = k})

\* zero-based position of record j among the records of its key
Occurrence(recs, j) == Cardinality({m \in 1..(j - 1) : recs[m].key = recs[j].key})

\* the n-th record of key k; defined when Count(recs, k) > n
Nth(recs, k, n) ==
    recs[CHOOSE j \in 1..Len(recs) : recs[j].key = k /\ Occurrence(recs, j) = n]

\* recs without the records of key k whose occurrence index is >= max(idx, 0)
RECURSIVE SurvivorsFrom(_, _, _, _)
SurvivorsFrom(recs, k, idx, j) ==
    IF j > Len(recs) THEN <<>>
    ELSE (IF recs[j].key = k /\ Occurrence(recs, j) >= Max(idx, 0) THEN <<>> ELSE <<recs[j]>>)
         \o SurvivorsFrom(recs, k, idx, j + 1)

Survivors(recs, k, idx) == SurvivorsFrom(recs, k, idx, 1)

\* a get that has reached its return with a buffer large enough for value v
FullGet(p, k, n, v) ==
    /\ frame[p].pc = "g_exit"
    /\ frame[p].aKey = k /\ frame[p].idx0 = n
    /\ frame[p].hasValue /\ frame[p].hasLength /\ frame[p].capacity >= Len(v)

\* that get returned Success with exactly v
Yields(p, v) ==
    /\ frame[p].error = OT_ERROR_NONE
    /\ frame[p].outValue = v
    /\ frame[p].aValueLength = Len(v)

RewritePcs ==
    {"d_loop", "d_wkey", "d_wlen", "d_read", "d_write", "d_sync", "d_rename",
     "s_wkey", "s_wlen", "s_wval", "s_sync", "s_rename"}

----------------------------------------------------------------------------
(* Properties *)

\* C1: with one process running set/add/delete and dying at any point, the
\* file at the store path is always a complete well-formed record sequence:
\* while a rewrite has not renamed, it is the version that was there when the
\* rewrite opened the swap file; once renamed, it is the complete content the
\* rewrite was to write; never a partial write.
C1_RewriteAtomic ==
    \A p \in Procs :
        /\ dataIno[p] # 0 => WellFormed(PathContent(p))
        /\ frame[p].pc \in RewritePcs => PathContent(p) = obs[p].rwBefore
        /\ frame[p].pc \in {"d_exit", "s_exit"} /\ frame[p].renamed
               => PathContent(p) = obs[p].rwTarget

\* C1 witness: the process died while the swap file held a partial record and
\* the store path still holds a non-empty store
C1_Witness ==
    /\ obs[1].last.op = "crash"
    /\ swapIno # 0 /\ ~WellFormed(SwapContent)
    /\ dataIno[1] # 0 /\ PathContent(1) # <<>>

\* C2: set(key, value), deinit, init, then get(key, 0) with enough capacity
\* returns Success with the value's bytes and length
C2_RoundTripAcrossRestart ==
    \A p \in Procs :
        obs[p].rt = 3 /\ FullGet(p, obs[p].rtKey, 0, obs[p].rtValue)
            => Yields(p, obs[p].rtValue)

\* C2 witness: such a get has returned a two-byte value of the key 257
C2_Witness ==
    /\ obs[1].rt = 3 /\ obs[1].rtKey = 257 /\ obs[1].rtValue = <<65, 66>>
    /\ FullGet(1, 257, 0, <<65, 66>>) /\ Yields(1, <<65, 66>>)

\* C3: on an open store, a get(key, 0) that follows the last add/set of key
\* returns Success with the bytes passed to that add/set
C3_GetAfterSet ==
    \A p \in Procs :
        obs[p].rt = 1 /\ FullGet(p, obs[p].rtKey, 0, obs[p].rtValue)
            => Yields(p, obs[p].rtValue)

\* C4: on an open store, a get(key, j) with j >= max(idx, 0) that follows
\* delete(key, idx) returns NotFound
C4_GetAfterDelete ==
    \A p \in Procs :
        /\ obs[p].last.op = "delete"
        /\ frame[p].pc = "g_exit"
        /\ frame[p].aKey = obs[p].last.key
        /\ frame[p].idx0 >= Max(obs[p].last.index, 0)
        => frame[p].error = OT_ERROR_NOT_FOUND

\* C5: delete(key, idx) installs at the store path the sequence that was at
\* the store path before the call without the records of key whose occurrence
\* index is >= max(idx, 0)
C5_DeleteInstallsSurvivors ==
    \A p \in Procs :
        /\ frame[p].pc = "d_exit" /\ frame[p].op = "delete" /\ frame[p].renamed
        /\ obs[p].atCall # Absent
        => /\ dataIno[p] # 0
           /\ ParseStore(PathContent(p))
                  = Survivors(ParseStore(obs[p].atCall), frame[p].aKey, frame[p].idx0)
           /\ WellFormed(PathContent(p))

\* C6: from an empty open store, after add(k, v1), add(k, v2): get(k, 0)
\* yields v1 and get(k, 1) yields v2; after a following delete(k, 1):
\* get(k, 1) yields NotFound and get(k, 0) still yields v1
C6_TwoValuesPerKey ==
    \A p \in Procs :
        LET o == obs[p]
        IN /\ o.scen \in {3, 4} /\ FullGet(p, o.scenKey, 0, o.scenV1) => Yields(p, o.scenV1)
           /\ o.scen = 3 /\ FullGet(p, o.scenKey, 1, o.scenV2) => Yields(p, o.scenV2)
           /\ o.scen = 4 /\ FullGet(p, o.scenKey, 1, <<>>)
                  => frame[p].error = OT_ERROR_NOT_FOUND

\* C7: when set(key, value) or add(key, value) returns, the file at the store
\* path holds exactly the one record (key, value), whatever it held before
C7_SetLeavesOneRecord ==
    \A p \in Procs :
        frame[p].pc = "s_exit" /\ frame[p].op \in {"set", "add"}
        => /\ dataIno[p] # 0
           /\ WellFormed(PathContent(p))
           /\ ParseStore(PathContent(p))
                  = <<[key |-> frame[p].aKey, value |-> frame[p].aValue]>>
           /\ frame[p].error = OT_ERROR_NONE

\* C7 witness: an add has returned on a store whose path held two records at
\* the call, one of them of another key
C7_Witness ==
    /\ frame[1].pc = "s_exit" /\ frame[1].op = "add" /\ frame[1].aKey = 257
    /\ obs[1].atCall # Absent
    /\ Len(ParseStore(obs[1].atCall)) = 2
    /\ Count(ParseStore(obs[1].atCall), 1) = 1
    /\ ParseStore(PathContent(1)) = <<[key |-> 257, value |-> frame[1].aValue]>>

\* C8: a get that finds its record, of length L, with a buffer of capacity C
\* copies the first min(L, C) bytes of the value and reports L; with a length
\* slot and no buffer it copies nothing and reports L
C8_GetTruncates ==
    \A p \in Procs :
        LET f    == frame[p]
            recs == ParseStore(HandleContent(p))
        IN f.pc = "g_exit" /\ sSecureSettingsFd[p] # -1 /\ Count(recs, f.aKey) > f.idx0
           => LET v == Nth(recs, f.aKey, f.idx0).value
              IN /\ f.hasLength /\ f.hasValue
                     => /\ f.outValue = SubSeq(v, 1, Min(Len(v), f.capacity))
                        /\ f.aValueLength = Len(v)
                 /\ f.hasLength /\ ~f.hasValue
                     => /\ f.outValue = <<>>
                        /\ f.aValueLength = Len(v)

\* C8 witness: a two-byte value read into a one-byte buffer
C8_Witness ==
    /\ frame[1].pc = "g_exit" /\ frame[1].hasValue /\ frame[1].hasLength
    /\ frame[1].capacity = 1 /\ frame[1].outValue = <<65>> /\ frame[1].aValueLength = 2

\* C9: get(key, n) returns Success, for the n-th record of key in the file the
\* open handle shows, when that file has more than n records of key, and
\* NotFound otherwise
C9_GetFindsNth ==
    \A p \in Procs :
        LET f    == frame[p]
            recs == ParseStore(HandleContent(p))
        IN f.pc = "g_exit" /\ sSecureSettingsFd[p] # -1
           => IF Count(recs, f.aKey) > f.idx0
              THEN /\ f.error = OT_ERROR_NONE
                   /\ FullGet(p, f.aKey, f.idx0, Nth(recs, f.aKey, f.idx0).value)
                          => Yields(p, Nth(recs, f.aKey, f.idx0).value)
              ELSE f.error = OT_ERROR_NOT_FOUND

\* C9 witness: get(1, 1) has found the second of two records of key 1
C9_Witness ==
    /\ FullGet(1, 1, 1, <<65, 66>>) /\ Yields(1, <<65, 66>>)
    /\ Count(ParseStore(HandleContent(1)), 1) = 2
    /\ ParseStore(HandleContent(1))[1].value = <<66>>

\* C10: while the store descriptor stays open, no step of any operation
\* changes the content of the file it references
C10_HandleContentFrozen ==
    [][\A p \in Procs :
           sSecureSettingsFd[p] # -1 /\ sSecureSettingsFd'[p] # -1
               => HandleContent(p)' = HandleContent(p)]_vars

\* C10 witness: after wipe the path names no file and a get through the open
\* handle has found a record
C10_Witness ==
    /\ obs[1].last.op = "wipe" /\ dataIno[1] = 0
    /\ frame[1].pc = "g_exit" /\ frame[1].error = OT_ERROR_NONE
    /\ HandleContent(1) # <<>>

\* C11: once a read of a set/add/delete rewrite has been short, the operation
\* does not rename: at its return the store path holds the file, with the
\* content, it held when the operation was called
C11_FailedRewriteAborts ==
    \A p \in Procs :
        frame[p].shortIo /\ frame[p].pc \in {"d_exit", "s_exit"}
            => ~frame[p].renamed /\ PathContent(p) = obs[p].atCall

\* C12: a get or delete whose scan stopped early (get: a read was short;
\* delete: the exit was reached without the rename) returns NotFound
C12_EarlyStopNotFound ==
    \A p \in Procs :
        \/ frame[p].pc = "g_exit" /\ frame[p].shortIo
        \/ frame[p].pc = "d_exit" /\ frame[p].op = "delete" /\ ~frame[p].renamed
        => frame[p].error = OT_ERROR_NOT_FOUND

\* C13 as stated: on a well-formed store, delete(key, idx) returns NotFound
\* when no record has the key and Success otherwise
C13_DeleteStatusByKey ==
    \A p \in Procs :
        frame[p].pc = "d_exit" /\ frame[p].op = "delete" /\ WellFormed(HandleContent(p))
        => (frame[p].error = OT_ERROR_NOT_FOUND
                <=> Count(ParseStore(HandleContent(p)), frame[p].aKey) = 0)

\* C13 amended: on a well-formed store, delete(key, idx) returns Success
\* when the store has more than max(idx, 0) records of the key, and NotFound
\* otherwise
C13_DeleteStatusByOccurrence ==
    \A p \in Procs :
        frame[p].pc = "d_exit" /\ frame[p].op = "delete" /\ WellFormed(HandleContent(p))
        => IF Count(ParseStore(HandleContent(p)), frame[p].aKey) > Max(frame[p].idx0, 0)
           THEN frame[p].error = OT_ERROR_NONE
           ELSE frame[p].error = OT_ERROR_NOT_FOUND

\* C13 witness: delete(1, 1) has returned NotFound on a store with exactly
\* one record of key 1, and has renamed
C13_Witness ==
    /\ frame[1].pc = "d_exit" /\ frame[1].op = "delete"
    /\ frame[1].aKey = 1 /\ frame[1].idx0 = 1
    /\ Count(ParseStore(HandleContent(1)), 1) = 1
    /\ frame[1].error = OT_ERROR_NOT_FOUND /\ frame[1].renamed

\* steps of process p: an open of the swap path, a rename
SwapOpenStepOf(p) ==
    /\ frame[p].pc \in {"idle", "s_open"}
    /\ frame'[p].pc \in {"d_loop", "s_wkey"}

RenameStepOf(p) ==
    /\ frame[p].pc \in {"d_rename", "s_rename"}
    /\ frame'[p].pc \in {"d_exit", "s_exit"}

\* C14: with two processes, an open of the swap path by either yields a
\* descriptor on the one file the path names, truncated, also when the other
\* process holds a descriptor on it, and a rename installs at the process's
\* store path whatever file the swap path names at that moment, whoever wrote
\* it; when the path names no file any more the store path keeps its content
C14_SwapPathShared ==
    [][\A p \in Procs :
          /\ SwapOpenStepOf(p)
                => /\ frame'[p].swapFd = swapIno'
                   /\ swapIno # 0 => swapIno' = swapIno
                   /\ SwapContent' = <<>>
                   /\ \A q \in Procs : frame[q].swapFd = swapIno /\ swapIno # 0
                                            => inodes'[frame'[q].swapFd] = <<>>
          /\ RenameStepOf(p)
                => IF swapIno # 0
                   THEN PathContent(p)' = SwapContent /\ swapIno' = 0
                   ELSE PathContent(p)' = PathContent(p)]_vars

\* C14 witness: the first process, whose only mutation is a set of key 1,
\* has renamed, and its store path holds exactly the record of key 257 that
\* the second process wrote
C14_Witness ==
    /\ frame[1].pc \in {"d_exit", "s_exit"} /\ frame[1].op = "set" /\ frame[1].renamed
    /\ frame[1].aKey = 1
    /\ PathContent(1) = EncodeRecord(OwnKey(2), OwnValue(2))
    /\ PathContent(1) # obs[1].rwTarget

\* a step of deinit by process p
DeinitStepOf(p) ==
    /\ frame[p].pc = "idle" /\ frame'[p].pc = "idle"
    /\ obs'[p].last.op = "deinit"
    /\ <<obs[p], sSecureSettingsFd[p]>>' # <<obs[p], sSecureSettingsFd[p]>>

\* C15: deinit leaves no handle; on an open store it closes the handle and
\* touches no file, on a closed store it changes nothing; init runs only on
\* a closed store and leaves it open on the file at the store path
C15_DeinitIdempotent ==
    [][\A p \in Procs :
          /\ DeinitStepOf(p)
                => /\ sSecureSettingsFd'[p] = -1
                   /\ PathContent(p)' = PathContent(p)
                   /\ SwapContent' = SwapContent
                   /\ UNCHANGED <<frame, leaked, fdPos>>
                   /\ sSecureSettingsFd[p] = -1
                          => UNCHANGED <<inodes, dataIno, swapIno, sSecureSettingsFd, leakedInos>>
          /\ frame[p].pc = "idle" /\ frame'[p].pc = "i_loop"
                => /\ sSecureSettingsFd[p] = -1
                   /\ sSecureSettingsFd'[p] # -1
                   /\ sSecureSettingsFd'[p] = dataIno'[p]]_vars

\* C15 witness: after set, deinit, deinit, init the store is open again
C15_Witness ==
    /\ obs[1].rt = 5 /\ frame[1].pc = "idle"
    /\ sSecureSettingsFd[1] # -1 /\ sSecureSettingsFd[1] = dataIno[1]

\* C16: after init and after every completed set, add and delete the open
\* handle references the file at the store path
C16_HandleIsLiveStore ==
    \A p \in Procs :
        /\ frame[p].pc = "idle" /\ sSecureSettingsFd[p] # -1
        /\ obs[p].last.op \in {"init", "set", "add", "delete"}
        => sSecureSettingsFd[p] = dataIno[p]

\* a step of process p that leaves the head of a scan loop
ScanStepOf(p) ==
    /\ frame[p].pc \in {"i_loop", "g_loop", "d_loop"}
    /\ frame'[p] # frame[p]

\* C17: each pass of the scan of init, get and delete either leaves the loop
\* or advances the offset by at least the 4 header bytes, the size staying
\* as it is; the loop is left when the offset has reached the size; each
\* chunk copied by delete is of 1..512 bytes and reduces the remaining
\* length, which never becomes negative
C17_ScanProgress ==
    [][\A p \in Procs :
          /\ ScanStepOf(p) /\ frame[p].offset < frame[p].size
                => \/ frame'[p].pc \in {"idle", "i_exit", "g_exit", "d_exit"}
                   \/ /\ frame'[p].offset >= frame[p].offset + 4
                      /\ frame'[p].size = frame[p].size
                      /\ frame'[p].pc \in {frame[p].pc, "d_wkey"}
          /\ ScanStepOf(p) /\ ~(frame[p].offset < frame[p].size)
                => frame'[p].pc \in {"idle", "i_exit", "g_exit", "d_sync"}
          /\ frame[p].pc \in {"d_wkey", "d_wlen", "d_read", "d_write"}
                /\ frame'[p].pc \in {"d_wkey", "d_wlen", "d_read", "d_write", "d_loop"}
                => /\ frame'[p].offset = frame[p].offset
                   /\ frame'[p].size = frame[p].size
          /\ frame[p].pc = "d_read" /\ frame'[p].pc = "d_write"
                => /\ frame'[p].count >= 1 /\ frame'[p].count <= kBufferSize
                   /\ frame'[p].count <= frame[p].length
          /\ frame[p].pc = "d_write" /\ frame'[p].pc \in {"d_read", "d_loop"}
                => /\ frame'[p].length < frame[p].length
                   /\ frame'[p].length >= 0
                   /\ frame'[p].pc = "d_loop" <=> frame'[p].length = 0]_vars

\* C17 witness: delete has copied a first chunk of 512 bytes of a 513-byte
\* value and is about to read the second
C17_Witness ==
    /\ frame[1].pc = "d_read" /\ frame[1].length = 1
    /\ frame[1].swapPos = 4 + kBufferSize

\* C18: a delete, set or add that is about to return Success has renamed,
\* and the store path holds the version the operation built
C18_SuccessMeansInstalled ==
    \A p \in Procs :
        /\ frame[p].pc \in {"d_exit", "s_exit"} /\ frame[p].op \in {"delete", "set", "add"}
        /\ frame[p].pc = "d_exit" => frame[p].op = "delete"
        /\ frame[p].error = OT_ERROR_NONE
        => frame[p].renamed /\ PathContent(p) = obs[p].rwTarget

\* C19: a delete that follows a wipe installs at the store path no record
\* that the store path held before the wipe
C19_WipedRecordsStayGone ==
    \A p \in Procs :
        /\ frame[p].pc = "d_exit" /\ frame[p].op = "delete"
        /\ obs[p].last.op = "wipe" /\ dataIno[p] # 0
        => \A j \in 1..Len(ParseStore(PathContent(p))) :
               \A m \in 1..Len(ParseStore(obs[p].wiped)) :
                   ParseStore(PathContent(p))[j] # ParseStore(obs[p].wiped)[m]

\* C20: between operations the process holds no open swap descriptor
C20_NoSwapHandleLeft ==
    \A p \in Procs :
        frame[p].pc = "idle" => leaked[p] = 0 /\ frame[p].swapFd = -1

====
